---- MODULE Spec2Model ----
(***************************************************************************)
(* bit_seq: the bseq!/bseq_N! procedural macros.                           *)
(*                                                                         *)
(* The macro parses a token stream into bit segments (bit_seq_input.rs),   *)
(* turns the segments into one shift/or expression (lib.rs, process and    *)
(* map_segment), and the expression is then evaluated by the program that  *)
(* invoked the macro, in the integer type Rust infers for it.              *)
(*                                                                         *)
(* Integers are modelled bit-exactly as the set of their one-bits          *)
(* (bit 0 = least significant), so that 64- and 128-bit values and their   *)
(* truncations are represented without loss.                               *)
(***************************************************************************)
EXTENDS Integers, Sequences, FiniteSets, TLC

\* Largest number of segments of a generated input.
MaxSegs == 2

\* Width of u128, the type of mask in map_segment.
WorkBits == 128
\* Width of usize, the type raw bit patterns are parsed into.
UsizeBits == 64
\* Width of i32, the type Rust gives an unconstrained integer literal.
DefaultBits == 32

-----------------------------------------------------------------------------
(* Text and tokens *)

Rep(c, n) == [k \in 1..n |-> c]

LitTok(s) == [t |-> "int", s |-> s]
Id(name) == [t |-> "ident", s |-> <<name>>]
Punct(c) == [t |-> "punct", s |-> <<c>>]

Colon == Punct(":")
Minus == Punct("-")
Bang == Punct("!")

IsTok(ts, p, tok) == p >= 1 /\ p <= Len(ts) /\ ts[p] = tok
IsKind(ts, p, k) == p >= 1 /\ p <= Len(ts) /\ ts[p].t = k

\* num_string.starts_with(prefix)
StartsWith(s, prefix) ==
    /\ Len(s) >= Len(prefix)
    /\ \A k \in 1..Len(prefix) : s[k] = prefix[k]

-----------------------------------------------------------------------------
(* Integers as sets of one-bits *)

Pow2(n) == IF n = 0 THEN 1 ELSE 2 * (2 ^ (n - 1))

\* The bits of a natural number below 2^31.
NatBits(n) == {b \in 0..30 : (n \div Pow2(b)) % 2 = 1}

Trunc(v, w) == {b \in v : b < w}
AllOnes(w) == 0..(w - 1)
ShlBits(v, n) == {b + n : b \in v}

\* v + 1 in w bits (wrapping)
IncBits(v, w) ==
    IF AllOnes(w) \subseteq v THEN {}
    ELSE LET k == CHOOSE j \in 0..(w - 1) : j \notin v /\ \A l \in 0..(j - 1) : l \in v
         IN {b \in v : b > k} \cup {k}

NotBits(v, w) == AllOnes(w) \ v
NegBits(v, w) == IncBits(NotBits(v, w), w)

\* as: truncation, zero extension, or sign extension of a signed source
CastBits(v, from, toBits) ==
    IF toBits <= from.bits THEN Trunc(v, toBits)
    ELSE IF from.signed /\ (from.bits - 1) \in v
         THEN v \cup (from.bits..(toBits - 1))
         ELSE v

-----------------------------------------------------------------------------
(* Literal text <-> value *)

DecDigits == <<"0", "1", "2", "3", "4", "5", "6", "7", "8", "9">>
HexDigits == DecDigits \o <<"a", "b", "c", "d", "e", "f">>

IsDecDigit(c) == \E d \in 1..Len(DecDigits) : DecDigits[d] = c
DigitVal(c) == (CHOOSE d \in 1..Len(HexDigits) : HexDigits[d] = c) - 1

\* usize::to_string
RECURSIVE DecimalText(_)
DecimalText(n) ==
    IF n < 10 THEN <<DecDigits[n + 1]>>
    ELSE DecimalText(n \div 10) \o <<DecDigits[(n % 10) + 1]>>

\* value of a string of decimal digits
RECURSIVE DecimalValue(_)
DecimalValue(s) ==
    IF Len(s) = 0 THEN 0
    ELSE 10 * DecimalValue(SubSeq(s, 1, Len(s) - 1)) + DigitVal(s[Len(s)])

\* len_lit.base10_parse::<usize>(): fails on a sign
base10_parse(s) ==
    IF Len(s) > 0 /\ \A k \in 1..Len(s) : IsDecDigit(s[k])
    THEN [ok |-> TRUE, n |-> DecimalValue(s)]
    ELSE [ok |-> FALSE, n |-> 0]

\* usize::from_str_radix(&b, 2): the bits of the pattern, Err on overflow of usize
from_str_radix(b) ==
    LET v == {Len(b) - k : k \in {j \in 1..Len(b) : b[j] = "1"}}
    IN [ok |-> \A x \in v : x < UsizeBits, v |-> v]

\* value of a hexadecimal literal 0x<h>
HexBits(s) ==
    LET d == Len(s) - 2
    IN UNION {ShlBits(NatBits(DigitVal(s[j + 2])), 4 * (d - j)) : j \in 1..d}

\* value of an integer literal as written in the invoking program
LitBits(s) ==
    IF StartsWith(s, <<"0", "x">>) THEN HexBits(s) ELSE NatBits(DecimalValue(s))

-----------------------------------------------------------------------------
(* syn: literals, lookahead and expressions *)

\* input.parse::<syn::LitInt>(): an integer token, or - followed by one.
LitIntAt(ts, p) ==
    IF IsKind(ts, p, "int")
    THEN [ok |-> TRUE, s |-> ts[p].s, next |-> p + 1]
    ELSE IF IsTok(ts, p, Minus) /\ IsKind(ts, p + 1, "int")
         THEN [ok |-> TRUE, s |-> <<"-">> \o ts[p + 1].s, next |-> p + 2]
         ELSE [ok |-> FALSE, s |-> <<>>, next |-> p]

\* input.peek(syn::LitInt)
PeekLitInt(ts, p) == LitIntAt(ts, p).ok
\* input.peek(syn::Ident)
PeekIdent(ts, p) == IsKind(ts, p, "ident")
\* input.peek2(Token![:]): the second token tree is :
Peek2Colon(ts, p) == IsTok(ts, p + 1, Colon)

\* End of a unary expression starting at p (0: no expression there):
\* any number of -/! followed by a literal or a path.
RECURSIVE UnaryEnd(_, _)
UnaryEnd(ts, p) ==
    IF IsTok(ts, p, Minus) \/ IsTok(ts, p, Bang) THEN UnaryEnd(ts, p + 1)
    ELSE IF IsKind(ts, p, "int") \/ IsKind(ts, p, "ident") THEN p + 1
    ELSE 0

\* Continuation of a binary expression: - operand repeated.
\* q is the position after the operand parsed so far.
RECURSIVE BinaryEnd(_, _)
BinaryEnd(ts, q) ==
    IF IsTok(ts, q, Minus)
    THEN LET e == UnaryEnd(ts, q + 1)
         IN IF e = 0 THEN 0 ELSE BinaryEnd(ts, e)
    ELSE q

\* forked.parse::<Expr>() / input.parse::<Expr>()
ExprAt(ts, p) ==
    LET u == UnaryEnd(ts, p)
        e == IF u = 0 THEN 0 ELSE BinaryEnd(ts, u)
    IN IF e = 0 THEN [ok |-> FALSE, kind |-> "none", next |-> p]
       ELSE [ok |-> TRUE,
             kind |-> IF e # u THEN "Binary"
                      ELSE IF IsTok(ts, p, Minus) \/ IsTok(ts, p, Bang) THEN "Unary"
                      ELSE IF IsKind(ts, p, "int") THEN "Lit" ELSE "Path",
             next |-> e]

\* The position the forked stream is left at by the trial parse.
ForkEnd(ts, p) == ExprAt(ts, p).next

\* peek_expr_with_token(|expr| matches!(expr, Expr::Unary(_)), Token![:], input)
peek_expr_with_token(ts, p) ==
    LET f == ExprAt(ts, p)
        expr_check == f.ok /\ f.kind = "Unary"
    IN expr_check /\ IsTok(ts, f.next, Colon)

-----------------------------------------------------------------------------
(* BitSeqInput *)

Bits(lit) == [kind |-> "Bits", lit |-> lit, expr |-> <<>>, len |-> <<>>]
Expr(expr, len) == [kind |-> "Expr", lit |-> <<>>, expr |-> expr, len |-> len]

Ok(seg, next) == [ok |-> TRUE, err |-> "none", seg |-> seg, next |-> next]
Err(msg, at) == [ok |-> FALSE, err |-> msg, seg |-> Bits(<<>>), next |-> at]

\* the message of parse_length_definition when the colon is missing
ErrColon == "expected :"
ErrSize == "expected integer that specifies size of bit sequence"
ErrNegative == "negative numbers are not allowed"
ErrNotBits == "expected bit sequence but got integer instead."
ErrNoRule == "expected bit sequence, hex or length defined expression"
ErrToken == "unexpected token"

\* BitSeqInput::parse_length_definition
parse_length_definition(ts, p) ==
    IF ~IsTok(ts, p, Colon) THEN [ok |-> FALSE, err |-> ErrColon, s |-> <<>>, next |-> p]
    ELSE IF ~PeekLitInt(ts, p + 1)
         THEN [ok |-> FALSE, err |-> ErrSize, s |-> <<>>, next |-> p + 1]
         ELSE LET l == LitIntAt(ts, p + 1)
              IN [ok |-> TRUE, err |-> "none", s |-> l.s, next |-> l.next]

\* BitSeqInput::parse_unary
parse_unary(ts, p) ==
    LET e == ExprAt(ts, p)
    IN IF ~e.ok THEN Err(ErrToken, p)
       ELSE LET size == parse_length_definition(ts, e.next)
            IN IF ~size.ok THEN Err(size.err, size.next)
               ELSE Ok(Expr(SubSeq(ts, p, e.next - 1), size.s), size.next)

\* BitSeqInput::parse_expr
parse_expr(ts, p) ==
    LET val == IF PeekIdent(ts, p)
               THEN [ok |-> TRUE, next |-> p + 1]
               ELSE [ok |-> LitIntAt(ts, p).ok, next |-> LitIntAt(ts, p).next]
    IN IF ~val.ok THEN Err(ErrToken, p)
       ELSE LET size == parse_length_definition(ts, val.next)
            IN IF ~size.ok THEN Err(size.err, size.next)
               ELSE Ok(Expr(SubSeq(ts, p, val.next - 1), size.s), size.next)

\* num_string.chars().all(..): every character is 0 or 1
IsBinary(s) == \A k \in 1..Len(s) : s[k] \in {"0", "1"}

\* parse_bits without the check for a leading sign
parse_bits_unsigned(ts, p) ==
    LET num == LitIntAt(ts, p)
    IN IF ~num.ok THEN Err(ErrToken, p)
       ELSE IF StartsWith(num.s, <<"0", "x">>)
            THEN Ok(Expr(SubSeq(ts, p, num.next - 1), DecimalText((Len(num.s) - 2) * 4)),
                    num.next)
       ELSE IF ~IsBinary(num.s) THEN Err(ErrNotBits, p)
       ELSE Ok(Bits(num.s), num.next)

\* parse_bits taking a literal that is neither binary nor hexadecimal as a
\* decimal value of 4 bits per digit
parse_bits_decimal(ts, p) ==
    LET num == LitIntAt(ts, p)
    IN IF ~num.ok THEN Err(ErrToken, p)
       ELSE IF StartsWith(num.s, <<"-">>) THEN Err(ErrNegative, p)
       ELSE IF StartsWith(num.s, <<"0", "x">>)
            THEN Ok(Expr(SubSeq(ts, p, num.next - 1), DecimalText((Len(num.s) - 2) * 4)),
                    num.next)
       ELSE IF ~IsBinary(num.s)
            THEN Ok(Expr(SubSeq(ts, p, num.next - 1), DecimalText(Len(num.s) * 4)),
                    num.next)
       ELSE Ok(Bits(num.s), num.next)

\* BitSeqInput::parse_bits
parse_bits(ts, p) ==
    LET num == LitIntAt(ts, p)
    IN IF ~num.ok THEN Err(ErrToken, p)
       ELSE IF StartsWith(num.s, <<"-">>) THEN Err(ErrNegative, p)
       ELSE IF StartsWith(num.s, <<"0", "x">>)
            THEN Ok(Expr(SubSeq(ts, p, num.next - 1), DecimalText((Len(num.s) - 2) * 4)),
                    num.next)
       ELSE IF ~IsBinary(num.s) THEN Err(ErrNotBits, p)
       ELSE Ok(Bits(num.s), num.next)

-----------------------------------------------------------------------------
(* Code generation: map_segment and process *)

\* Target type of each entry point (0: None, the generic bseq!)
VarType(e) ==
    CASE e = "bseq" -> 0
      [] e = "bseq_8" -> 8
      [] e = "bseq_16" -> 16
      [] e = "bseq_32" -> 32
      [] e = "bseq_64" -> 64
      [] e = "bseq_128" -> 128

\* (#val) << #bit_len_lit, with #val either a literal or (expr [as ty]) & mask
LitTerm(num, sh) ==
    [kind |-> "lit", num |-> num, expr |-> <<>>, cast |-> 0, mask |-> {}, sh |-> sh]
MaskTerm(expr, ty, mask, sh) ==
    [kind |-> "masked", num |-> {}, expr |-> expr, cast |-> ty, mask |-> mask, sh |-> sh]

Mapped(term, len) == [ok |-> TRUE, err |-> "none", term |-> term, len |-> len]
Aborted(msg) == [ok |-> FALSE, err |-> msg, term |-> LitTerm({}, 0), len |-> 0]

ErrRadix == "panic: from_str_radix(..).unwrap()"
ErrWidth == "abort: Couldn't be parsed!"
ErrShl == "panic: attempt to shift left with overflow"

\* let mask: u128 = (1 << len) - 1, in the build of the macro crate:
\* a shift by 128 or more panics with overflow checks and wraps the amount without
MaskOf(len, checks) ==
    IF len < WorkBits THEN [ok |-> TRUE, v |-> AllOnes(len)]
    ELSE IF checks THEN [ok |-> FALSE, v |-> {}]
    ELSE [ok |-> TRUE, v |-> AllOnes(len % WorkBits)]

\* map_segment(seg, &mut curr_bit_len, &expr_type)
map_segment(seg, curr_bit_len, expr_type, checks) ==
    IF seg.kind = "Bits"
    THEN LET num == from_str_radix(seg.lit)
         IN IF ~num.ok THEN Aborted(ErrRadix)
            ELSE Mapped(LitTerm(num.v, curr_bit_len), Len(seg.lit))
    ELSE LET len == base10_parse(seg.len)
         IN IF ~len.ok THEN Aborted(ErrWidth)
            ELSE LET mask == MaskOf(len.n, checks)
                 IN IF ~mask.ok THEN Aborted(ErrShl)
                    ELSE Mapped(MaskTerm(seg.expr, expr_type, mask.v, curr_bit_len),
                                len.n)

\* process, lines 330-341: the cast wrapper, and 0 for an empty token stream.
\* With a target type the parentheses and the cast are emitted even when there
\* are no shifts, so the stream is not empty.
Combine(terms, var_type) ==
    IF var_type # 0 THEN [kind |-> "cast", terms |-> terms, ty |-> var_type]
    ELSE IF terms = <<>> THEN [kind |-> "zero", terms |-> <<>>, ty |-> 0]
    ELSE [kind |-> "or", terms |-> terms, ty |-> 0]

-----------------------------------------------------------------------------
(* The invoking program: variables in scope and evaluation of the expression *)

U(w) == [bits |-> w, signed |-> FALSE]
I(w) == [bits |-> w, signed |-> TRUE]

\* Variables of the tests that appear in segments
DeclType(name) ==
    CASE name = "foo" -> U(32)
      [] name = "i" -> I(32)
      [] name = "var" -> I(32)
      [] name = "wide" -> U(128)
      [] OTHER -> U(8)

VarBits(name) ==
    CASE name = "foo" -> AllOnes(32)
      [] name = "i" -> 18..31
      [] name = "var" -> {0}
      [] name = "wide" -> {1, 2, 4}
      [] OTHER -> {0}

Val(v) == [ok |-> TRUE, why |-> "none", v |-> v]
Rejected(why) == [ok |-> FALSE, why |-> why, v |-> {}]

WhyLiteral == "literal out of range"
WhyNeg == "cannot apply unary operator - to an unsigned type"
WhyTypes == "mismatched types"
WhyShift == "attempt to shift left with overflow"
WhyNegOverflow == "attempt to negate with overflow"
WhyUnitCast == "non-primitive cast: () as integer"

\* Does the value of an unsuffixed literal fit the type it is inferred to have?
Fits(v, ty) == \A b \in v : b < (IF ty.signed THEN ty.bits - 1 ELSE ty.bits)

\* A literal written by the user, typed ty: out of range is reported by a strict
\* build and truncated otherwise
UserLit(v, ty, strict) ==
    IF Fits(v, ty) THEN Val(v)
    ELSE IF strict THEN Rejected(WhyLiteral)
    ELSE Val(Trunc(v, ty.bits))

\* Type of the operand of a segment expression: a variable has its declared
\* type, a literal the type expected of it (the cast target, or the type of the
\* whole expression)
OperandType(tok, dom, cast) ==
    IF tok.t = "ident" THEN DeclType(tok.s[1])
    ELSE IF cast # 0 THEN U(cast) ELSE dom

\* Value of expr[p..], of type ty
RECURSIVE UnaryVal(_, _, _, _)
UnaryVal(expr, p, ty, strict) ==
    IF p = Len(expr)
    THEN IF expr[p].t = "ident" THEN Val(VarBits(expr[p].s[1]))
         ELSE UserLit(LitBits(expr[p].s), ty, strict)
    ELSE LET inner == UnaryVal(expr, p + 1, ty, strict)
         IN IF ~inner.ok THEN inner
            ELSE IF expr[p] = Bang THEN Val(NotBits(inner.v, ty.bits))
            ELSE IF ~ty.signed THEN Rejected(WhyNeg)
            ELSE IF inner.v = {ty.bits - 1}
                 THEN IF strict THEN Rejected(WhyNegOverflow) ELSE Val(inner.v)
            ELSE Val(NegBits(inner.v, ty.bits))

\* (#expr as #ty) & #mask_lit   or   #expr & #mask_lit, evaluated in dom
MaskedVal(term, dom, strict) ==
    LET ty == OperandType(term.expr[Len(term.expr)], dom, term.cast)
        e == UnaryVal(term.expr, 1, ty, strict)
        mask == UserLit(term.mask, dom, strict)
    IN IF ~e.ok THEN e
       ELSE IF term.cast = 0 /\ ty # dom THEN Rejected(WhyTypes)
       ELSE IF ~mask.ok THEN mask
       ELSE Val(CastBits(e.v, ty, dom.bits) \cap mask.v)

\* (#val) << #bit_len_lit in dom: a shift by the width of the type or more
\* is an overflow, reported by a strict build; otherwise the amount wraps
ShiftVal(v, sh, dom, strict) ==
    IF sh < dom.bits THEN Val(Trunc(ShlBits(v, sh), dom.bits))
    ELSE IF strict THEN Rejected(WhyShift)
    ELSE Val(Trunc(ShlBits(v, sh % dom.bits), dom.bits))

TermVal(term, dom, strict) ==
    LET v == IF term.kind = "lit" THEN Val(Trunc(term.num, dom.bits))
             ELSE MaskedVal(term, dom, strict)
    IN IF ~v.ok THEN v ELSE ShiftVal(v.v, term.sh, dom, strict)

\* The type the terms are evaluated in: every term of an | chain has the same
\* type.  Generic entry: the type the context expects.  Fixed-width entry: the
\* cast target if some term carries (expr as ty), else the default i32.
Domain(out, ctx) ==
    IF out.kind # "cast" THEN ctx
    ELSE IF \E k \in 1..Len(out.terms) : out.terms[k].kind = "masked" THEN U(out.ty)
    ELSE I(DefaultBits)

Outcome(ok, why, v, ty) == [ok |-> ok, why |-> why, v |-> v, ty |-> ty]

\* Value of the expression the macro expands to
Eval(out, ctx, strict) ==
    LET dom == Domain(out, ctx)
        vals == [k \in 1..Len(out.terms) |-> TermVal(out.terms[k], dom, strict)]
        bad == {k \in 1..Len(out.terms) : ~vals[k].ok}
        ored == UNION {vals[k].v : k \in 1..Len(out.terms)}
    IN IF out.kind = "zero" THEN Outcome(TRUE, "none", {}, ctx)
       ELSE IF out.terms = <<>> THEN Outcome(FALSE, WhyUnitCast, {}, U(out.ty))
       ELSE IF bad # {}
            THEN Outcome(FALSE, vals[CHOOSE k \in bad : \A l \in bad : k <= l].why,
                         {}, dom)
       ELSE IF out.kind = "cast"
            THEN Outcome(TRUE, "none", CastBits(ored, dom, out.ty), U(out.ty))
       ELSE Outcome(TRUE, "none", ored, dom)

-----------------------------------------------------------------------------
(* Inputs *)

Lit(s) == <<LitTok(s)>>
WithLen(expr, w) == expr \o <<Colon, LitTok(w)>>

\* Segments (well-formed and not) that generated inputs are put together from
Chunks ==
    << Lit(<<"1">>),
       Lit(<<"0", "0", "1", "0", "1">>),
       Lit(<<"0", "x", "1", "f">>),
       WithLen(Lit(<<"2", "2">>), <<"5">>),
       WithLen(<<Id("var")>>, <<"8">>),
       WithLen(<<Id("foo")>>, <<"8">>),
       WithLen(<<Bang, LitTok(<<"0">>)>>, <<"6">>),
       WithLen(<<Minus, LitTok(<<"1">>)>>, <<"8">>),
       WithLen(<<Minus, Id("var")>>, <<"8">>),
       Lit(<<"2", "2">>),
       <<Minus, LitTok(<<"1">>)>>,
       <<Id("foo")>>,
       <<Bang, LitTok(<<"1">>)>>,
       <<Id("var"), Colon>>,
       <<LitTok(<<"1">>), Colon, Minus, LitTok(<<"8">>)>> >>

RECURSIVE Flatten(_)
Flatten(seqs) == IF seqs = <<>> THEN <<>> ELSE Head(seqs) \o Flatten(Tail(seqs))

Generated ==
    {Flatten([k \in DOMAIN f |-> Chunks[f[k]]]) :
        f \in UNION {[1..m -> 1..Len(Chunks)] : m \in 0..MaxSegs}}

\* Inputs at the limits of the supported widths
Boundary ==
    { Lit(Rep("1", 9)),
      Lit(<<"1", "1">> \o Rep("0", 7)),
      Lit(<<"1">>) \o Lit(Rep("0", 8)),
      WithLen(Lit(<<"1">>), <<"1">>) \o WithLen(Lit(<<"0">>), <<"8">>),
      WithLen(Lit(<<"1">>), <<"1">>) \o WithLen(Lit(<<"0">>), <<"3", "1">>),
      Lit(<<"1">> \o Rep("0", 31)),
      Lit(<<"1">>) \o Lit(Rep("0", 31)),
      Lit(<<"1">> \o Rep("0", 32)),
      Lit(<<"1">> \o Rep("0", 64)),
      Lit(Rep("0", 69) \o <<"1">>),
      Lit(<<"0", "x">> \o Rep("f", 8)),
      Lit(<<"0", "x">> \o Rep("f", 32)),
      Lit(<<"0", "x", "1">>) \o Lit(<<"0", "x", "1">>),
      Lit(<<"0", "x", "0", "f">>) \o Lit(Rep("1", 4)),
      WithLen(<<Id("var")>>, <<"0">>),
      WithLen(<<Id("foo")>>, <<"9">>),
      WithLen(<<Id("foo")>>, <<"3", "2">>),
      WithLen(<<Id("wide")>>, <<"3">>),
      WithLen(<<Id("wide")>>, <<"6", "4">>),
      WithLen(<<Id("wide")>>, <<"1", "2", "7">>),
      WithLen(<<Id("wide")>>, <<"1", "2", "8">>),
      WithLen(<<Bang, Id("wide")>>, <<"1", "2", "8">>),
      WithLen(<<Minus, Id("i")>>, <<"1", "2", "8">>),
      WithLen(<<Bang, Id("foo")>>, <<"3">>),
      Lit(<<"0", "1", "0", "1", "0", "1", "0">>) \o WithLen(<<Id("bar")>>, <<"1">>)
          \o WithLen(<<Id("i")>>, <<"1", "7">>),
      <<Minus, LitTok(<<"2", "2">>)>>,
      <<Minus, LitTok(<<"0", "x", "1", "f">>)>>,
      <<Minus, LitTok(<<"1">>)>> \o WithLen(<<Minus, Id("var")>>, <<"8">>),
      Lit(<<"2", "2">>) \o WithLen(<<Minus, Id("var")>>, <<"8">>),
      <<Colon>> }

Inputs == Generated \cup Boundary

\* The entry point and, for the generic bseq!, the type the context expects
\* of the expression (i32 when the context leaves it open)
Targets ==
    {[entry |-> "bseq", ty |-> t] : t \in {U(8), I(8), I(32), U(32), U(128)}}
    \cup {[entry |-> e, ty |-> U(VarType(e))] :
            e \in {"bseq_8", "bseq_16", "bseq_32", "bseq_64", "bseq_128"}}

-----------------------------------------------------------------------------
(* One invocation of the macro, followed by the evaluation of its expansion *)

VARIABLES
    tokens,         \* the macro input
    entry,          \* the entry point invoked
    ctx,            \* type expected by the context of the invocation
    macro_checks,   \* overflow checks in the build of the macro crate
    strict,         \* the invoking build reports integer overflow
    pc,             \* "loop", "rule", "compile", "expanded", "done", "failed"
    pos,            \* cursor of the ParseStream (index of the next token)
    forked,         \* cursor of the forked stream after the trial parse
    unary,          \* result of peek_expr_with_token
    rule,           \* branch of the parse loop taken last (1..4, 0: none yet)
    bit_segments,   \* BitSeqInput.bit_segments
    err,            \* message of the error that ended the expansion
    idx,            \* next segment of the reversed iteration
    bit_len,        \* bit_len of process
    shifts,         \* the shifted terms collected so far
    macro_out,      \* the expansion
    result          \* outcome of evaluating the expansion

vars == <<tokens, entry, ctx, macro_checks, strict, pc, pos, forked, unary, rule,
          bit_segments, err, idx, bit_len, shifts, macro_out, result>>

input == <<tokens, entry, ctx, macro_checks, strict>>

NoOut == [kind |-> "none", terms |-> <<>>, ty |-> 0]
NoResult == Outcome(FALSE, "pending", {}, U(8))

Init ==
    /\ tokens \in Inputs
    /\ \E t \in Targets : entry = t.entry /\ ctx = t.ty
    /\ macro_checks \in BOOLEAN
    /\ strict \in BOOLEAN
    /\ pc = "loop"
    /\ pos = 1
    /\ forked = 1
    /\ unary = FALSE
    /\ rule = 0
    /\ bit_segments = <<>>
    /\ err = "none"
    /\ idx = 0
    /\ bit_len = 0
    /\ shifts = <<>>
    /\ macro_out = NoOut
    /\ result = NoResult

\* The lookahead run on the stream itself instead of a fork of it
PeekConsuming ==
    /\ pc = "loop"
    /\ pos <= Len(tokens)
    /\ forked' = ForkEnd(tokens, pos)
    /\ unary' = peek_expr_with_token(tokens, pos)
    /\ pos' = ForkEnd(tokens, pos)
    /\ pc' = "rule"
    /\ UNCHANGED <<input, rule, bit_segments, err, idx, bit_len, shifts, macro_out, result>>

\* while !input.is_empty(): the speculative lookahead of rule 1
Peek ==
    /\ pc = "loop"
    /\ pos <= Len(tokens)
    /\ forked' = ForkEnd(tokens, pos)
    /\ unary' = peek_expr_with_token(tokens, pos)
    /\ pc' = "rule"
    /\ UNCHANGED <<input, pos, rule, bit_segments, err, idx, bit_len, shifts, macro_out,
                   result>>

\* The outcome r of the parse function of the rule taken
Commit(n, r) ==
    /\ rule' = n
    /\ pos' = r.next
    /\ IF r.ok
       THEN bit_segments' = Append(bit_segments, r.seg) /\ err' = err /\ pc' = "loop"
       ELSE bit_segments' = bit_segments /\ err' = r.err /\ pc' = "failed"
    /\ UNCHANGED <<input, forked, unary, idx, bit_len, shifts, macro_out, result>>

Rule2 == PeekIdent(tokens, pos) \/ (PeekLitInt(tokens, pos) /\ Peek2Colon(tokens, pos))
Rule3 == PeekLitInt(tokens, pos)

ParseUnary == pc = "rule" /\ unary /\ Commit(1, parse_unary(tokens, pos))

ParseExpr == pc = "rule" /\ ~unary /\ Rule2 /\ Commit(2, parse_expr(tokens, pos))

ParseBits ==
    pc = "rule" /\ ~unary /\ ~Rule2 /\ Rule3 /\ Commit(3, parse_bits(tokens, pos))

NoRule == pc = "rule" /\ ~unary /\ ~Rule2 /\ ~Rule3 /\ Commit(4, Err(ErrNoRule, pos))

\* Ok(BitSeqInput { bit_segments }): process goes on to the reversed segments
ParseEnd ==
    /\ pc = "loop"
    /\ pos > Len(tokens)
    /\ pc' = "compile"
    /\ idx' = Len(bit_segments)
    /\ UNCHANGED <<input, pos, forked, unary, rule, bit_segments, err, bit_len, shifts,
                   macro_out, result>>

\* one element of input.segments().iter().rev().map(..)
MapSegment ==
    /\ pc = "compile"
    /\ idx >= 1
    /\ LET r == map_segment(bit_segments[idx], bit_len, VarType(entry), macro_checks)
       IN IF r.ok
          THEN /\ shifts' = Append(shifts, r.term)
               /\ bit_len' = bit_len + r.len
               /\ idx' = idx - 1
               /\ UNCHANGED <<pc, err>>
          ELSE /\ pc' = "failed"
               /\ err' = r.err
               /\ UNCHANGED <<shifts, bit_len, idx>>
    /\ UNCHANGED <<input, pos, forked, unary, rule, bit_segments, macro_out, result>>

\* process: combine all shift segments
Process ==
    /\ pc = "compile"
    /\ idx = 0
    /\ macro_out' = Combine(shifts, VarType(entry))
    /\ pc' = "expanded"
    /\ UNCHANGED <<input, pos, forked, unary, rule, bit_segments, err, idx, bit_len, shifts,
                   result>>

\* the invoking program evaluates the expansion
Evaluate ==
    /\ pc = "expanded"
    /\ result' = Eval(macro_out, ctx, strict)
    /\ pc' = "done"
    /\ UNCHANGED <<input, pos, forked, unary, rule, bit_segments, err, idx, bit_len, shifts,
                   macro_out>>

Next ==
    \/ Peek
    \/ ParseUnary
    \/ ParseExpr
    \/ ParseBits
    \/ NoRule
    \/ ParseEnd
    \/ MapSegment
    \/ Process
    \/ Evaluate

Spec == Init /\ [][Next]_vars

-----------------------------------------------------------------------------
(* The expansion and its value as functions of a segment sequence *)

\* input.segments().iter().rev().map(|seg| map_segment(..)).collect(),
\* for the segments k, k-1, .., 1
RECURSIVE ShiftsOf(_, _, _, _, _)
ShiftsOf(segs, k, curr_bit_len, expr_type, checks) ==
    IF k = 0 THEN [ok |-> TRUE, terms |-> <<>>]
    ELSE LET r == map_segment(segs[k], curr_bit_len, expr_type, checks)
             rest == ShiftsOf(segs, k - 1, curr_bit_len + r.len, expr_type, checks)
         IN IF ~r.ok \/ ~rest.ok THEN [ok |-> FALSE, terms |-> <<>>]
            ELSE [ok |-> TRUE, terms |-> <<r.term>> \o rest.terms]

\* Value of this invocation's entry point applied to the segments segs
Compile(segs) ==
    LET sh == ShiftsOf(segs, Len(segs), 0, VarType(entry), macro_checks)
    IN IF ~sh.ok THEN Outcome(FALSE, "no expansion", {}, ctx)
       ELSE Eval(Combine(sh.terms, VarType(entry)), ctx, strict)

-----------------------------------------------------------------------------
(* What the documentation says of a segment sequence *)


\* The invoking program type-checks: a variable of the generic entry point has
\* the type of the context, a literal fits its type, and only signed operands
\* are negated
SegTyped(seg) ==
    seg.kind = "Expr" =>
        LET tok == seg.expr[Len(seg.expr)]
            ty == OperandType(tok, ctx, VarType(entry))
        IN /\ VarType(entry) = 0 => ty = ctx
           /\ tok.t = "int" => Fits(LitBits(tok.s), ty)
           /\ (\E k \in 1..Len(seg.expr) : seg.expr[k] = Minus) => ty.signed

WellTyped == \A k \in 1..Len(bit_segments) : SegTyped(bit_segments[k])

Finished == pc = "done" /\ result.ok /\ WellTyped

\* Declared width of a segment
Width(seg) == IF seg.kind = "Bits" THEN Len(seg.lit) ELSE DecimalValue(seg.len)

RECURSIVE WidthFrom(_, _)
WidthFrom(segs, j) == IF j > Len(segs) THEN 0 ELSE Width(segs[j]) + WidthFrom(segs, j + 1)

\* Sum of the widths of the segments after segment j
WidthAfter(segs, j) == WidthFrom(segs, j + 1)

\* The number a string of binary digits denotes
PatternBits(b) == {Len(b) - k : k \in {j \in 1..Len(b) : b[j] = "1"}}

\* The value v of the expression of a value segment: in the generic entry point
\* its value in the type of the context, in a fixed-width one its value cast
\* to the target type
ExprBits(seg) ==
    LET ty == OperandType(seg.expr[Len(seg.expr)], ctx, VarType(entry))
        v == UnaryVal(seg.expr, 1, ty, FALSE).v
    IN IF VarType(entry) = 0 THEN v ELSE CastBits(v, ty, VarType(entry))

\* v & (2^w - 1)
Contribution(seg) ==
    IF seg.kind = "Bits" THEN PatternBits(seg.lit)
    ELSE ExprBits(seg) \cap AllOnes(Width(seg))

\* The full-width concatenation, first segment most significant
Concat(segs) ==
    UNION {ShlBits(Contribution(segs[j]), WidthAfter(segs, j)) : j \in 1..Len(segs)}

-----------------------------------------------------------------------------
(* Claims *)

\* C1: the packed result is the full-width concatenated value reduced modulo
\* 2^W, W the width of the target type, also when the total width exceeds W.
C1_PackedIsConcatModW ==
    Finished => result.v = Trunc(Concat(bit_segments), result.ty.bits)

\* C2: an empty specification expands to the literal 0, from every entry point.
C2_EmptyIsZero ==
    (pc \in {"expanded", "done"} /\ tokens = <<>>) => macro_out.kind = "zero"

\* The term the expansion holds for segment k, and the value its masked
\* sub-expression contributes
TermOf(k) == macro_out.terms[Len(bit_segments) + 1 - k]
Contributed(k) == MaskedVal(TermOf(k), Domain(macro_out, ctx), strict).v

ValueSegments == {k \in 1..Len(bit_segments) : bit_segments[k].kind = "Expr"}

\* C3: every segment is shifted by the sum of the widths of the segments after
\* it, and for two segments A, B: compile([A, B]) = (compile([A]) << b) | compile([B]).
C3_ConcatOrder ==
    /\ pc \in {"expanded", "done"} =>
          \A k \in 1..Len(bit_segments) : TermOf(k).sh = WidthAfter(bit_segments, k)
    /\ (Finished /\ Len(bit_segments) = 2) =>
          LET A == Compile(<<bit_segments[1]>>)
              B == Compile(<<bit_segments[2]>>)
          IN (A.ok /\ B.ok) =>
                result.v = Trunc(ShlBits(A.v, Width(bit_segments[2])) \cup B.v,
                                 result.ty.bits)

\* C4: a value segment v:w contributes v & (2^w - 1), for every w in 0..128.
C4_ValueMasked ==
    /\ Finished =>
          \A k \in ValueSegments :
              Width(bit_segments[k]) <= WorkBits =>
                  Contributed(k) = Contribution(bit_segments[k])
    /\ (pc = "failed" /\ err = ErrShl /\ WellTyped) => Width(bit_segments[idx]) > WorkBits

IsHex(tok) == tok.t = "int" /\ StartsWith(tok.s, <<"0", "x">>)
HexInput == Len(tokens) = 1 /\ IsHex(tokens[1])

\* C5: a bare literal 0x<h> of d digits becomes a value segment of width 4*d
\* and contributes the numeric value of the literal.
C5_HexLiteral ==
    /\ (pc = "loop" /\ rule = 3 /\ bit_segments[Len(bit_segments)].kind = "Expr") =>
          /\ IsHex(tokens[pos - 1])
          /\ bit_segments[Len(bit_segments)]
                = Expr(<<tokens[pos - 1]>>, DecimalText(4 * (Len(tokens[pos - 1].s) - 2)))
    /\ (HexInput /\ WellTyped) => pc # "failed"
    /\ (HexInput /\ Finished /\ Fits(HexBits(tokens[1].s), result.ty)) =>
          /\ Contributed(1) = HexBits(tokens[1].s)
          /\ result.v = HexBits(tokens[1].s)

RawInput == Len(tokens) = 1 /\ tokens[1].t = "int" /\ IsBinary(tokens[1].s)

\* C6: a single raw segment b of k digits denoting n compiles to n and occupies
\* k bits, whatever its leading zeros.
C6_RawPattern ==
    RawInput =>
        /\ Fits(PatternBits(tokens[1].s), ctx) => pc # "failed"
        /\ pc \in {"expanded", "done"} =>
              bit_segments = <<Bits(tokens[1].s)>> /\ bit_len = Len(tokens[1].s)
        /\ (pc = "done" /\ Fits(PatternBits(tokens[1].s), result.ty)) =>
              result.ok /\ result.v = PatternBits(tokens[1].s)

\* C7: with a target type of W bits a value segment v:w contributes
\* (v mod 2^W) & (2^w - 1): the cast comes before the mask.
C7_CastBeforeMask ==
    VarType(entry) # 0 =>
        /\ Finished =>
              \A k \in ValueSegments :
                  LET seg == bit_segments[k]
                      ty == OperandType(seg.expr[Len(seg.expr)], ctx, VarType(entry))
                      v == UnaryVal(seg.expr, 1, ty, strict).v
                  IN Contributed(k) = CastBits(v, ty, VarType(entry)) \cap AllOnes(Width(seg))
        /\ (pc = "failed" /\ WellTyped) => err # ErrShl

IsUnaryOp(tok) == tok = Minus \/ tok = Bang
UnarySegments == {k \in ValueSegments : IsUnaryOp(bit_segments[k].expr[1])}

\* <op> <operand> : <width> at the cursor
UnaryWithLenAt(ts, p) ==
    /\ IsTok(ts, p, Minus) \/ IsTok(ts, p, Bang)
    /\ IsKind(ts, p + 1, "int") \/ IsKind(ts, p + 1, "ident")
    /\ IsTok(ts, p + 2, Colon)
    /\ IsKind(ts, p + 3, "int")

\* What !v:w and -v:w are said to contribute, v the operand in its type ty
UnaryContribution(seg, ty) ==
    LET w == Width(seg)
        v == UnaryVal(seg.expr, 2, ty, FALSE).v
    IN IF seg.expr[1] = Bang THEN AllOnes(w) \ Trunc(v, w)
       ELSE NegBits(CastBits(v, ty, w), w)

\* C8: a unary expression followed by :<width> is taken by rule 1 as one value
\* segment holding the whole expression, and contributes the result of the
\* operator masked to the width.
C8_UnaryWithLength ==
    /\ (pc = "rule" /\ UnaryWithLenAt(tokens, pos)) => unary
    /\ (pc = "loop" /\ rule = 1) =>
          LET seg == bit_segments[Len(bit_segments)]
              size == LitIntAt(tokens, forked + 1)
          IN /\ seg.kind = "Expr"
             /\ IsUnaryOp(seg.expr[1])
             /\ seg.expr = SubSeq(tokens, forked - Len(seg.expr), forked - 1)
             /\ tokens[forked] = Colon
             /\ seg.len = size.s
             /\ pos = size.next
    /\ Finished =>
          \A k \in UnarySegments :
              LET seg == bit_segments[k]
                  ty == OperandType(seg.expr[Len(seg.expr)], ctx, VarType(entry))
              IN Len(seg.expr) = 2 =>
                    Contributed(k)
                        = Trunc(UnaryContribution(seg, ty), Domain(macro_out, ctx).bits)
    /\ (pc = "failed" /\ err = ErrShl /\ WellTyped) => idx \notin UnarySegments

\* - <integer> at the cursor, with no :<width> after it
BareNegativeAt(ts, p) ==
    IsTok(ts, p, Minus) /\ IsKind(ts, p + 1, "int") /\ ~IsTok(ts, p + 2, Colon)

\* C9: a bare integer with a leading negative sign and no :<width>, alone or
\* followed by further segments, is rejected by rule 3 with the error
\* "negative numbers are not allowed", and by no other rule or error.
C9_BareNegativeRejected ==
    [][(pc = "rule" /\ BareNegativeAt(tokens, pos)) =>
          /\ pc' = "failed"
          /\ rule' = 3
          /\ err' = ErrNegative
          /\ bit_segments' = bit_segments]_vars

C9_Witness ==
    /\ pc = "failed"
    /\ rule = 3
    /\ err = ErrNegative
    /\ BareNegativeAt(tokens, pos)
    /\ pos + 1 < Len(tokens)

IsDecimalLit(tok) ==
    tok.t = "int" /\ ~StartsWith(tok.s, <<"0", "x">>) /\ ~IsBinary(tok.s)

\* a literal such as 22 at the cursor, without and with :<width>
BareDecimalAt(ts, p) ==
    p <= Len(ts) /\ IsDecimalLit(ts[p]) /\ ~IsTok(ts, p + 1, Colon)
DecimalWithLenAt(ts, p) ==
    p <= Len(ts) /\ IsDecimalLit(ts[p]) /\ IsTok(ts, p + 1, Colon) /\ IsKind(ts, p + 2, "int")

\* C10: a bare literal that is neither binary nor hexadecimal is rejected with
\* the error of a non-bit, non-hex literal and never taken as a decimal value;
\* followed by :<width> it is a value segment of that width.
C10_DecimalOnlyWithLength ==
    [][/\ (pc = "rule" /\ BareDecimalAt(tokens, pos)) =>
             /\ pc' = "failed"
             /\ rule' = 3
             /\ err' = ErrNotBits
             /\ bit_segments' = bit_segments
       /\ (pc = "rule" /\ DecimalWithLenAt(tokens, pos)) =>
             /\ pc' = "loop"
             /\ rule' = 2
             /\ pos' = pos + 3
             /\ bit_segments'
                   = Append(bit_segments, Expr(<<tokens[pos]>>, tokens[pos + 2].s))]_vars

C10_Witness ==
    /\ pc = "failed"
    /\ rule = 3
    /\ err = ErrNotBits
    /\ BareDecimalAt(tokens, pos)
    /\ bit_segments = <<Expr(Lit(<<"2", "2">>), <<"5">>)>>

\* The parser has returned Ok and process ended while mapping segment idx
CompileFailed == pc = "failed" /\ idx >= 1

\* C11: over every parsed segment sequence (raw patterns of any number of
\* digits, widths up to 128 and above) the compiler produces an expansion and
\* never aborts or panics, except for a width literal that is not a
\* non-negative integer.
C11_CompilerTotal ==
    CompileFailed =>
        /\ bit_segments[idx].kind = "Expr"
        /\ ~base10_parse(bit_segments[idx].len).ok
        /\ err = ErrWidth

\* What rules 2 to 4 make of the tokens at position p
FallThrough(ts, p) ==
    IF PeekIdent(ts, p) \/ (PeekLitInt(ts, p) /\ Peek2Colon(ts, p))
    THEN [rule |-> 2, r |-> parse_expr(ts, p)]
    ELSE IF PeekLitInt(ts, p) THEN [rule |-> 3, r |-> parse_bits(ts, p)]
    ELSE [rule |-> 4, r |-> Err(ErrNoRule, p)]

\* C12: the speculative lookahead of rule 1 never consumes input. The cursor
\* after the trial is the cursor before it, whether the trial succeeds or
\* fails; after a failed trial rules 2 to 4 parse the tokens at that cursor; a
\* committed parse after a successful trial consumes exactly the unary
\* expression, the colon and the width literal.
C12_LookaheadConsumesNothing ==
    [][/\ (pc = "loop" /\ pc' = "rule") =>
             /\ pos' = pos
             /\ bit_segments' = bit_segments
             /\ tokens' = tokens
       /\ (pc = "rule" /\ ~unary) =>
             LET f == FallThrough(tokens, pos)
             IN /\ rule' = f.rule
                /\ pos' = f.r.next
                /\ f.r.ok => bit_segments' = Append(bit_segments, f.r.seg)
                /\ ~f.r.ok => pc' = "failed" /\ err' = f.r.err
       /\ (pc = "rule" /\ unary /\ pc' = "loop") =>
             LET seg == bit_segments'[Len(bit_segments')]
                 size == LitIntAt(tokens, forked + 1)
             IN /\ rule' = 1
                /\ Len(bit_segments') = Len(bit_segments) + 1
                /\ seg.len = size.s
                /\ pos' = size.next
                /\ SubSeq(tokens, pos, pos' - 1)
                      = seg.expr \o <<Colon>> \o SubSeq(tokens, forked + 1, size.next - 1)]_vars

\* A failed trial whose fork ran past the tokens that rule 3 then consumed
C12_Witness ==
    /\ pc = "loop"
    /\ rule = 3
    /\ ~unary
    /\ forked > pos
    /\ bit_segments = <<Bits(<<"1">>)>>
    /\ IsTok(tokens, pos, Minus)

====
